---------------------------- MODULE Spec2Model ----------------------------
(***************************************************************************)
(* Model of the jobly backend: the partial-update fragment builder         *)
(* (helpers/sql.js), the where-clause builders and the repository          *)
(* operations of models/job.js and models/company.js, together with the    *)
(* part of the relational store their statements exercise.                 *)
(*                                                                         *)
(* Text is a sequence of atoms (a character, or a chunk of literal text);  *)
(* string concatenation is \o.  JavaScript values are tagged tuples.       *)
(***************************************************************************)
EXTENDS Integers, Sequences, FiniteSets, TLC

VARIABLES jobs, companies, jobsIdSeq, op, res, sent

vars == <<jobs, companies, jobsIdSeq, op, res, sent>>

(***************************************************************************)
(* Bounds of the model.                                                    *)
(***************************************************************************)
MaxFields == 2

(***************************************************************************)
(* JavaScript values.                                                      *)
(***************************************************************************)
Undefined == <<"undefined">>
Null == <<"null">>
JsStr(s) == <<"string", s>>
JsNum(n) == <<"number", n>>
JsBool(b) == <<"boolean", b>>
JsFun(name) == <<"function", name>>

IsStr(v) == v[1] = "string"
IsNum(v) == v[1] = "number"

\* Two of the members every object literal inherits from Object.prototype:
\* a property read obj[k] finds them when obj has no own property k.
ObjectPrototypeKeys == {"constructor", "toString"}

Digits == <<"0", "1", "2", "3", "4", "5", "6", "7", "8", "9">>

\* Decimal text of a natural number, as `${n}` renders it.
RECURSIVE DecStr(_)
DecStr(n) ==
  IF n < 10 THEN <<Digits[n + 1]>>
  ELSE DecStr(n \div 10) \o <<Digits[(n % 10) + 1]>>

\* `${v}`: the text a template literal interpolates for v.
JsToString(v) ==
  CASE v[1] = "string" -> v[2]
    [] v[1] = "number" -> DecStr(v[2])
    [] v[1] = "boolean" -> IF v[2] THEN <<"true">> ELSE <<"false">>
    [] v[1] = "null" -> <<"null">>
    [] v[1] = "undefined" -> <<"undefined">>
    [] v[1] = "function" ->
         <<"function ", IF v[2] = "constructor" THEN "Object" ELSE v[2],
           "() { [native code] }">>

\* The truthiness the || operator tests.
Truthy(v) ==
  CASE v[1] = "string" -> v[2] # <<>>
    [] v[1] = "number" -> v[2] # 0
    [] v[1] = "boolean" -> v[2]
    [] v[1] = "null" -> FALSE
    [] v[1] = "undefined" -> FALSE
    [] v[1] = "function" -> TRUE

\* a || b
JsOr(a, b) == IF Truthy(a) THEN a ELSE b

(***************************************************************************)
(* Objects: the sequence of own <<key, value>> properties, in the order    *)
(* Object.keys enumerates them.                                            *)
(***************************************************************************)
ObjectKeys(o) == [i \in 1..Len(o) |-> o[i][1]]
ObjectValues(o) == [i \in 1..Len(o) |-> o[i][2]]
HasOwn(o, k) == \E i \in 1..Len(o) : o[i][1] = k

\* o[k]: the own property, else the inherited one, else undefined.
JsGet(o, k) ==
  IF HasOwn(o, k) THEN o[CHOOSE i \in 1..Len(o) : o[i][1] = k][2]
  ELSE IF k \in ObjectPrototypeKeys THEN JsFun(k)
  ELSE Undefined

\* texts.join(sep)
RECURSIVE Join(_, _)
Join(texts, sep) ==
  IF Len(texts) = 0 THEN <<>>
  ELSE IF Len(texts) = 1 THEN texts[1]
  ELSE texts[1] \o sep \o Join(Tail(texts), sep)

(***************************************************************************)
(* Outcomes of a call.                                                     *)
(***************************************************************************)
Return(v) == <<"return", v>>
Throw(e) == <<"throw", e>>
Returned(r) == r[1] = "return"
Threw(r, e) == r = Throw(e)
NoCall == <<"none">>
NoOp == [name |-> "none"]

(***************************************************************************)
(* helpers/sql.js: sqlForPartialUpdate                                     *)
(***************************************************************************)
\* One element of cols: `"${jsToSql[colName] || colName}"=$${idx + 1}`
\* (idx is the 0-based index map() passes).
ColMisnumbered(colName, idx, jsToSql) ==
  <<"\"">> \o JsToString(JsOr(JsGet(jsToSql, colName), JsStr(<<colName>>)))
    \o <<"\"=$">> \o DecStr(idx)

Col(colName, idx, jsToSql) ==
  <<"\"">> \o JsToString(JsOr(JsGet(jsToSql, colName), JsStr(<<colName>>)))
    \o <<"\"=$">> \o DecStr(idx + 1)

SqlForPartialUpdateNoGuard(dataToUpdate, jsToSql) ==
  LET keys == ObjectKeys(dataToUpdate)
      cols == [i \in 1..Len(keys) |-> Col(keys[i], i - 1, jsToSql)]
  IN  Return([setCols |-> Join(cols, <<", ">>),
              values |-> ObjectValues(dataToUpdate)])

SqlForPartialUpdateInlined(dataToUpdate, jsToSql) ==
  LET keys == ObjectKeys(dataToUpdate)
      cols == [i \in 1..Len(keys) |->
                 <<"\"">> \o JsToString(JsOr(JsGet(jsToSql, keys[i]), JsStr(<<keys[i]>>)))
                   \o <<"\"=">> \o JsToString(dataToUpdate[i][2])]
  IN  IF Len(keys) = 0 THEN Throw("BadRequestError")
      ELSE Return([setCols |-> Join(cols, <<", ">>),
                   values |-> ObjectValues(dataToUpdate)])

sqlForPartialUpdate(dataToUpdate, jsToSql) ==
  LET keys == ObjectKeys(dataToUpdate)
      cols == [i \in 1..Len(keys) |-> Col(keys[i], i - 1, jsToSql)]
  IN  IF Len(keys) = 0 THEN Throw("BadRequestError")
      ELSE Return([setCols |-> Join(cols, <<", ">>),
                   values |-> ObjectValues(dataToUpdate)])

(***************************************************************************)
(* models/job.js: Job._sqlWhereBuilder                                     *)
(***************************************************************************)
\* `%${s}%`, the value a substring criterion binds.
Substring(s) == JsStr(<<"%">> \o JsToString(s) \o <<"%">>)

\* Numbers the title clause by the clauses pushed so far.
Job_sqlWhereBuilderByClauses(minSalary, hasEquity, title, companyHandle) ==
  LET v1 == IF minSalary # Undefined THEN <<minSalary>> ELSE <<>>
      c1 == IF minSalary # Undefined
            THEN << <<"salary >= $">> \o DecStr(Len(v1)) >> ELSE <<>>
      c2 == IF hasEquity = JsBool(TRUE) THEN Append(c1, <<"equity > 0">>) ELSE c1
      v3 == IF title # Undefined THEN Append(v1, Substring(title)) ELSE v1
      c3 == IF title # Undefined
            THEN Append(c2, <<"title ILIKE $">> \o DecStr(Len(c2) + 1)) ELSE c2
      v4 == IF companyHandle # Undefined
            THEN Append(v3, Substring(companyHandle)) ELSE v3
      c4 == IF companyHandle # Undefined
            THEN Append(c3, <<"company_handle ILIKE $">> \o DecStr(Len(v4))) ELSE c3
  IN  [whereClause |-> <<"WHERE ">> \o Join(c4, <<" AND ">>), whereValues |-> v4]

\* Treats every provided hasEquity as a request for equity.
Job_sqlWhereBuilderAnyEquity(minSalary, hasEquity, title, companyHandle) ==
  LET v1 == IF minSalary # Undefined THEN <<minSalary>> ELSE <<>>
      c1 == IF minSalary # Undefined
            THEN << <<"salary >= $">> \o DecStr(Len(v1)) >> ELSE <<>>
      c2 == IF hasEquity # Undefined THEN Append(c1, <<"equity > 0">>) ELSE c1
      v3 == IF title # Undefined THEN Append(v1, Substring(title)) ELSE v1
      c3 == IF title # Undefined
            THEN Append(c2, <<"title ILIKE $">> \o DecStr(Len(v3))) ELSE c2
      v4 == IF companyHandle # Undefined
            THEN Append(v3, Substring(companyHandle)) ELSE v3
      c4 == IF companyHandle # Undefined
            THEN Append(c3, <<"company_handle ILIKE $">> \o DecStr(Len(v4))) ELSE c3
  IN  [whereClause |-> <<"WHERE ">> \o Join(c4, <<" AND ">>), whereValues |-> v4]

Job_sqlWhereBuilder(minSalary, hasEquity, title, companyHandle) ==
  LET v1 == IF minSalary # Undefined THEN <<minSalary>> ELSE <<>>
      c1 == IF minSalary # Undefined
            THEN << <<"salary >= $">> \o DecStr(Len(v1)) >> ELSE <<>>
      c2 == IF hasEquity = JsBool(TRUE) THEN Append(c1, <<"equity > 0">>) ELSE c1
      v3 == IF title # Undefined THEN Append(v1, Substring(title)) ELSE v1
      c3 == IF title # Undefined
            THEN Append(c2, <<"title ILIKE $">> \o DecStr(Len(v3))) ELSE c2
      v4 == IF companyHandle # Undefined
            THEN Append(v3, Substring(companyHandle)) ELSE v3
      c4 == IF companyHandle # Undefined
            THEN Append(c3, <<"company_handle ILIKE $">> \o DecStr(Len(v4))) ELSE c3
  IN  [whereClause |-> <<"WHERE ">> \o Join(c4, <<" AND ">>), whereValues |-> v4]

(***************************************************************************)
(* models/company.js: Company._sqlWhereBuilder                             *)
(***************************************************************************)
Company_sqlWhereBuilder(name, min, max) ==
  LET v1 == IF name # Undefined THEN <<Substring(name)>> ELSE <<>>
      c1 == IF name # Undefined
            THEN << <<"name ILIKE $">> \o DecStr(Len(v1)) >> ELSE <<>>
      v2 == IF min # Undefined THEN Append(v1, min) ELSE v1
      c2 == IF min # Undefined
            THEN Append(c1, <<"num_employees >= $">> \o DecStr(Len(v2))) ELSE c1
      v3 == IF max # Undefined THEN Append(v2, max) ELSE v2
      c3 == IF max # Undefined
            THEN Append(c2, <<"num_employees <= $">> \o DecStr(Len(v3))) ELSE c2
  IN  [whereClause |-> <<"WHERE ">> \o Join(c3, <<" AND ">>), whereValues |-> v3]

(***************************************************************************)
(* Reading text back: what a parser of the fragments sees.                 *)
(***************************************************************************)
\* The pieces of text between occurrences of the atom sep.
RECURSIVE Split(_, _)
Split(text, sep) ==
  IF \A i \in 1..Len(text) : text[i] # sep THEN <<text>>
  ELSE LET p == CHOOSE i \in 1..Len(text) :
                  text[i] = sep /\ \A j \in 1..(i - 1) : text[j] # sep
       IN  <<SubSeq(text, 1, p - 1)>> \o Split(SubSeq(text, p + 1, Len(text)), sep)

\* part occurs in text as a contiguous run of atoms.
Contains(text, part) ==
  \E i \in 0..(Len(text) - Len(part)) :
    \A j \in 1..Len(part) : text[i + j] = part[j]

IsDigit(a) == \E d \in 1..10 : Digits[d] = a
DigitValue(a) == (CHOOSE d \in 1..10 : Digits[d] = a) - 1
IsDecimal(text) == Len(text) > 0 /\ \A i \in 1..Len(text) : IsDigit(text[i])

RECURSIVE ParseDec(_)
ParseDec(text) ==
  IF Len(text) = 0 THEN 0
  ELSE 10 * ParseDec(SubSeq(text, 1, Len(text) - 1)) + DigitValue(text[Len(text)])

\* Position of the last occurrence of atom a in text (0 when absent).
LastIndexOf(text, a) ==
  IF \E i \in 1..Len(text) : text[i] = a
  THEN CHOOSE i \in 1..Len(text) :
         text[i] = a /\ \A j \in (i + 1)..Len(text) : text[j] # a
  ELSE 0

\* An assignment clause "<name>"=$<n> read back: its name and its placeholder.
IsSetClause(c) ==
  LET p == LastIndexOf(c, "\"=$")
  IN  Len(c) >= 3 /\ c[1] = "\"" /\ p >= 2 /\ IsDecimal(SubSeq(c, p + 1, Len(c)))
SetClauseName(c) == SubSeq(c, 2, LastIndexOf(c, "\"=$") - 1)
SetClauseParam(c) == ParseDec(SubSeq(c, LastIndexOf(c, "\"=$") + 1, Len(c)))

(***************************************************************************)
(* The store: the jobs and companies tables, and how it answers the        *)
(* statements the models send.  A job row is                               *)
(* [id, title, salary, equity, companyHandle] and a company row is         *)
(* [handle, name, description, numEmployees, logoUrl]; text columns hold   *)
(* text, nullable columns hold Null or JsNum(n); equity is in thousandths. *)
(* jobsIdSeq is the next value of the sequence that generates job ids.     *)
(***************************************************************************)
\* The order ORDER BY sorts characters in.
Collation ==
  <<"%", "'", "-", ";", "_", "1", "2", "3", "c", "j", "J", "n", "N", "v", "x">>

Rank(a) == CHOOSE i \in 1..Len(Collation) : Collation[i] = a

RECURSIVE TextLeq(_, _)
TextLeq(s, t) ==
  IF Len(s) = 0 THEN TRUE
  ELSE IF Len(t) = 0 THEN FALSE
  ELSE IF s[1] = t[1] THEN TextLeq(Tail(s), Tail(t))
  ELSE Rank(s[1]) < Rank(t[1])

\* Case folding of ILIKE.
Lower(a) == IF a = "J" THEN "j" ELSE IF a = "N" THEN "n" ELSE a

\* s LIKE p, case folded: % matches any run of characters, _ any one.
RECURSIVE ILike(_, _)
ILike(s, p) ==
  IF Len(p) = 0 THEN Len(s) = 0
  ELSE IF p[1] = "%"
  THEN ILike(s, Tail(p)) \/ (Len(s) > 0 /\ ILike(Tail(s), p))
  ELSE IF p[1] = "_" THEN Len(s) > 0 /\ ILike(Tail(s), Tail(p))
  ELSE Len(s) > 0 /\ Lower(s[1]) = Lower(p[1]) /\ ILike(Tail(s), Tail(p))

\* The text the driver sends for a bound value.
ParamText(v) == JsToString(v)

\* A bound value the store accepts where an integer is expected.
IsIntegerParam(v) == IsNum(v) \/ (IsStr(v) /\ IsDecimal(v[2]))
IntegerOf(v) == IF IsNum(v) THEN v[2] ELSE ParseDec(v[2])
IsNullParam(v) == v = Null \/ v = Undefined

\* The predicates the statements use: the column each template tests.
ComparisonTemplates ==
  [jobs |-> {"salary >= $"},
   companies |-> {"num_employees >= $", "num_employees <= $"}]
PatternTemplates ==
  [jobs |-> {"title ILIKE $", "company_handle ILIKE $"},
   companies |-> {"name ILIKE $"}]

ColumnOf(row, template) ==
  CASE template = "salary >= $" -> row.salary
    [] template = "num_employees >= $" -> row.numEmployees
    [] template = "num_employees <= $" -> row.numEmployees
    [] template = "title ILIKE $" -> row.title
    [] template = "company_handle ILIKE $" -> row.companyHandle
    [] template = "name ILIKE $" -> row.name

\* pred parses as a predicate over the table, its placeholder among params.
PredicateOk(table, pred, params) ==
  \/ table = "jobs" /\ pred = <<"equity > 0">>
  \/ /\ Len(pred) >= 2
     /\ pred[1] \in ComparisonTemplates[table] \cup PatternTemplates[table]
     /\ IsDecimal(Tail(pred))
     /\ ParseDec(Tail(pred)) \in 1..Len(params)
     /\ LET v == params[ParseDec(Tail(pred))]
        IN  pred[1] \in ComparisonTemplates[table] =>
              IsNullParam(v) \/ IsIntegerParam(v)

\* The predicate's value on a row; a comparison with NULL is not true.
PredicateHolds(row, pred, params) ==
  IF pred = <<"equity > 0">> THEN row.equity # Null /\ row.equity[2] > 0
  ELSE LET v == params[ParseDec(Tail(pred))]
           col == ColumnOf(row, pred[1])
       IN  IF IsNullParam(v) THEN FALSE
           ELSE IF pred[1] \in {"salary >= $", "num_employees >= $"}
           THEN col # Null /\ col[2] >= IntegerOf(v)
           ELSE IF pred[1] = "num_employees <= $"
           THEN col # Null /\ col[2] <= IntegerOf(v)
           ELSE ILike(col, ParamText(v))

\* The where part of a SELECT: the text between its head and its ORDER BY.
WhereOf(text) == SubSeq(text, 2, Len(text) - 1)

WherePreds(where) == Split(Tail(where), " AND ")

\* The store accepts the statement: an absent where part, or WHERE followed
\* by predicates joined by AND, every bound value used by a placeholder.
SelectOk(table, text, params) ==
  LET where == WhereOf(text)
  IN  IF Len(where) = 0 THEN Len(params) = 0
      ELSE /\ where[1] = "WHERE "
           /\ \A i \in 1..Len(WherePreds(where)) :
                PredicateOk(table, WherePreds(where)[i], params)
           /\ \A n \in 1..Len(params) :
                \E i \in 1..Len(WherePreds(where)) :
                  LET pred == WherePreds(where)[i]
                  IN  Len(pred) >= 2 /\ IsDecimal(Tail(pred))
                        /\ ParseDec(Tail(pred)) = n

\* The rows of the table the statement selects.
SelectRows(rows, text, params) ==
  LET where == WhereOf(text)
  IN  IF Len(where) = 0 THEN rows
      ELSE {r \in rows : \A i \in 1..Len(WherePreds(where)) :
                           PredicateHolds(r, WherePreds(where)[i], params)}

\* Every order of the rows that ORDER BY <column> allows (rows equal in the
\* column come in any order).
RECURSIVE Orderings(_, _)
Orderings(rows, column) ==
  IF rows = {} THEN {<<>>}
  ELSE UNION {{<<r>> \o rest : rest \in Orderings(rows \ {r}, column)} :
                r \in {x \in rows : \A y \in rows : TextLeq(x[column], y[column])}}

\* db.query(text, params) for a SELECT: the outcomes the store may give.
DbSelect(table, rows, text, params, column) ==
  IF SelectOk(table, text, params)
  THEN {Return(o) : o \in Orderings(SelectRows(rows, text, params), column)}
  ELSE {Throw("DatabaseError")}

(***************************************************************************)
(* models/job.js: Job.findAll                                              *)
(***************************************************************************)
JsObj(props) == <<"object", props>>
IsObject(v) == v[1] = "object"

SelectJobs ==
  "SELECT id, title, salary, equity, company_handle AS \"companyHandle\" FROM jobs "
OrderByTitle == " ORDER BY title"

\* The statement Job.findAll(filterBy) sends.
Job_findAllQuery(filterBy) ==
  LET filtered == IsObject(filterBy) /\ Len(ObjectKeys(filterBy[2])) > 0
      whereStatement ==
        Job_sqlWhereBuilder(JsGet(filterBy[2], "minSalary"),
                            JsGet(filterBy[2], "hasEquity"),
                            JsGet(filterBy[2], "title"),
                            JsGet(filterBy[2], "companyHandle"))
      whereClause == IF filtered THEN whereStatement.whereClause ELSE <<>>
      whereValues == IF filtered THEN whereStatement.whereValues ELSE <<>>
  IN  [text |-> <<SelectJobs>> \o whereClause \o <<OrderByTitle>>,
       params |-> whereValues]

(***************************************************************************)
(* models/company.js: Company.findAll                                      *)
(***************************************************************************)
SelectCompanies ==
  "SELECT handle, name, description, num_employees AS \"numEmployees\", logo_url AS \"logoUrl\" FROM companies "
OrderByName == " ORDER BY name"

\* The statement Company.findAll(filterBy) sends.
Company_findAllQuery(filterBy) ==
  LET filtered == IsObject(filterBy) /\ Len(ObjectKeys(filterBy[2])) > 0
      whereStatement ==
        Company_sqlWhereBuilder(JsGet(filterBy[2], "name"),
                                JsGet(filterBy[2], "minEmp"),
                                JsGet(filterBy[2], "maxEmp"))
      whereClause == IF filtered THEN whereStatement.whereClause ELSE <<>>
      whereValues == IF filtered THEN whereStatement.whereValues ELSE <<>>
  IN  [text |-> <<SelectCompanies>> \o whereClause \o <<OrderByName>>,
       params |-> whereValues]

(***************************************************************************)
(* The store's answer to the UPDATE statements of Job.update and           *)
(* Company.update.                                                         *)
(***************************************************************************)
TableColumns ==
  [jobs |-> {"id", "title", "salary", "equity", "company_handle"},
   companies |-> {"handle", "name", "description", "num_employees", "logo_url"}]
NumericColumns == {"id", "salary", "equity", "num_employees"}
NullableColumns == {"salary", "equity", "num_employees", "logo_url"}
PrimaryKey == [jobs |-> "id", companies |-> "handle"]

\* The field of a row that holds a column.
FieldOf(column) ==
  CASE column = "company_handle" -> "companyHandle"
    [] column = "num_employees" -> "numEmployees"
    [] column = "logo_url" -> "logoUrl"
    [] OTHER -> column

\* The store takes the bound value as a value of the column's type (a job's
\* id is always bound to an integer here).
ParamFits(column, v) ==
  IF column = "id" THEN IsIntegerParam(v)
  ELSE IsNullParam(v) \/ (column \in NumericColumns => IsIntegerParam(v))

\* The row leaves no column empty that must hold a value.
NotNullHolds(table, row) ==
  \A c \in TableColumns[table] \ (NullableColumns \cup {"id"}) :
    row[FieldOf(c)] # Null

\* Every job belongs to a stored company.
ForeignKeysHold(js, cs) ==
  \A j \in js : \E c \in cs : c.handle = j.companyHandle

\* What the store does with the jobs of a company whose handle a statement
\* removes or changes: the statements do not say, the table definition does.
ReferentialActions == {"restrict", "cascade"}

\* An answer of the store: the outcome and the two tables after it.
Answer(outcome, js, cs) == [outcome |-> outcome, jobs |-> js, companies |-> cs]
Refused(db) == Answer(Throw("DatabaseError"), db.jobs, db.companies)

\* What the column holds once the bound value is assigned to it.
Stored(column, v) ==
  IF IsNullParam(v) THEN Null
  ELSE IF column = "id" THEN IntegerOf(v)
  ELSE IF column \in NumericColumns THEN JsNum(IntegerOf(v))
  ELSE IF column = "logo_url" THEN JsStr(ParamText(v))
  ELSE ParamText(v)

\* The parts of UPDATE <table> SET <assignments> WHERE <key> = $<n> RETURNING ...
KeyCondition(table) ==
  IF table = "jobs" THEN " WHERE id = $" ELSE " WHERE handle = $"
FirstIndexOf(text, a) ==
  IF \E i \in 1..Len(text) : text[i] = a
  THEN CHOOSE i \in 1..Len(text) : text[i] = a /\ \A j \in 1..(i - 1) : text[j] # a
  ELSE 0
Assignments(table, text) ==
  Split(SubSeq(text, 2, FirstIndexOf(text, KeyCondition(table)) - 1), ", ")
KeyDigits(table, text) ==
  SubSeq(text, FirstIndexOf(text, KeyCondition(table)) + 1, Len(text) - 1)

PlaceholdersOfUpdate(table, text) ==
  {SetClauseParam(Assignments(table, text)[i]) :
     i \in 1..Len(Assignments(table, text))}
    \cup {ParseDec(KeyDigits(table, text))}

\* The store accepts the statement: every assignment names a column of the
\* table once and binds a value the column takes, and every bound value is
\* used.
UpdateOk(table, text, params) ==
  /\ FirstIndexOf(text, KeyCondition(table)) >= 2
  /\ IsDecimal(KeyDigits(table, text))
  /\ LET as == Assignments(table, text)
     IN  /\ \A i \in 1..Len(as) :
              /\ IsSetClause(as[i])
              /\ Len(SetClauseName(as[i])) = 1
              /\ SetClauseName(as[i])[1] \in TableColumns[table]
              /\ SetClauseParam(as[i]) \in 1..Len(params)
              /\ ParamFits(SetClauseName(as[i])[1], params[SetClauseParam(as[i])])
         /\ \A i, j \in 1..Len(as) :
              SetClauseName(as[i]) = SetClauseName(as[j]) => i = j
  /\ ParseDec(KeyDigits(table, text)) \in 1..Len(params)
  /\ ParamFits(PrimaryKey[table], params[ParseDec(KeyDigits(table, text))])
  /\ ~IsNullParam(params[ParseDec(KeyDigits(table, text))])
  /\ PlaceholdersOfUpdate(table, text) = 1..Len(params)

\* Keeps what the column held when the bound value is null.
AssignedUnlessNull(table, row, text, params) ==
  LET as == Assignments(table, text)
      setBy(f) == {i \in 1..Len(as) : FieldOf(SetClauseName(as[i])[1]) = f}
  IN  [f \in DOMAIN row |->
         IF setBy(f) = {} THEN row[f]
         ELSE LET i == CHOOSE i \in setBy(f) : TRUE
              IN  IF IsNullParam(params[SetClauseParam(as[i])]) THEN row[f]
                  ELSE Stored(SetClauseName(as[i])[1], params[SetClauseParam(as[i])])]

\* The row after the assignments of the statement.
Assigned(table, row, text, params) ==
  LET as == Assignments(table, text)
      setBy(f) == {i \in 1..Len(as) : FieldOf(SetClauseName(as[i])[1]) = f}
  IN  [f \in DOMAIN row |->
         IF setBy(f) = {} THEN row[f]
         ELSE LET i == CHOOSE i \in setBy(f) : TRUE
              IN  Stored(SetClauseName(as[i])[1], params[SetClauseParam(as[i])])]

\* The jobs of the companies in old, moved to the handle the company has in
\* new (both hold at most one row).
Reowned(js, old, new) ==
  {IF \E r \in old : r.handle = j.companyHandle
   THEN [j EXCEPT !.companyHandle = (CHOOSE n \in new : TRUE).handle] ELSE j :
     j \in js}

\* db.query(text, params) for an UPDATE: the answers the store may give.  The
\* rows changed must keep the table's constraints: no required column empty,
\* no primary key twice, every job with its company.
DbUpdate(table, db, text, params) ==
  IF ~UpdateOk(table, text, params) THEN {Refused(db)}
  ELSE LET rows == db[table]
           key == Stored(PrimaryKey[table], params[ParseDec(KeyDigits(table, text))])
           hit == {r \in rows : r[PrimaryKey[table]] = key}
           new == {Assigned(table, r, text, params) : r \in hit}
           after == (rows \ hit) \cup new
       IN  IF \/ \E r \in new : ~NotNullHolds(table, r)
              \/ \E r \in new, k \in rows \ hit :
                   r[PrimaryKey[table]] = k[PrimaryKey[table]]
           THEN {Refused(db)}
           ELSE IF table = "jobs"
           THEN IF ForeignKeysHold(new, db.companies)
                THEN {Answer(Return(new), after, db.companies)}
                ELSE {Refused(db)}
           ELSE IF ForeignKeysHold(db.jobs, after)
           THEN {Answer(Return(new), db.jobs, after)}
           ELSE {IF a = "restrict" THEN Refused(db)
                 ELSE Answer(Return(new), Reowned(db.jobs, hit, new), after) :
                   a \in ReferentialActions}

(***************************************************************************)
(* models/job.js: Job.update                                               *)
(***************************************************************************)
ReturningJob ==
  " RETURNING id, title, salary, equity, company_handle AS \"companyHandle\""

\* Binds the id first and numbers the key condition after the last value.
Job_updateQueryKeyFirst(id, built) ==
  [text |-> <<"UPDATE jobs SET ">> \o built.setCols
              \o <<" WHERE id = $">> \o DecStr(Len(built.values) + 1)
              \o <<ReturningJob>>,
   params |-> <<id>> \o built.values]

\* The statement Job.update(id, data) sends once setCols and values are built.
Job_updateQuery(id, built) ==
  [text |-> <<"UPDATE jobs SET ">> \o built.setCols
              \o <<" WHERE id = $">> \o DecStr(Len(built.values) + 1)
              \o <<ReturningJob>>,
   params |-> built.values \o <<id>>]

(***************************************************************************)
(* models/company.js: Company.update                                       *)
(***************************************************************************)
ReturningCompany ==
  " RETURNING handle, name, description, num_employees AS \"numEmployees\", logo_url AS \"logoUrl\""

\* The statement Company.update(handle, data) sends.
Company_updateQuery(handle, built) ==
  [text |-> <<"UPDATE companies SET ">> \o built.setCols
              \o <<" WHERE handle = $">> \o DecStr(Len(built.values) + 1)
              \o <<ReturningCompany>>,
   params |-> built.values \o <<handle>>]

\* Hands back rows[0] without testing it.
UpdateResultUntested(answer) ==
  IF ~Returned(answer) THEN answer
  ELSE IF answer[2] = {} THEN Return(Undefined)
  ELSE Return(CHOOSE r \in answer[2] : TRUE)

\* The outcome of an update from the store's answer: the row, or not found.
UpdateResult(answer) ==
  IF ~Returned(answer) THEN answer
  ELSE IF answer[2] = {} THEN Throw("NotFoundError")
  ELSE Return(CHOOSE r \in answer[2] : TRUE)

(***************************************************************************)
(* Inputs of the builder calls.                                            *)
(***************************************************************************)
FieldKeys == {"title", "numEmployees", "constructor"}
FieldValues ==
  {JsStr(<<"v">>), JsStr(<<"'", ";", "DROP TABLE jobs", "--">>), Null}

\* Objects of exactly n own properties: distinct keys, any values.
RECURSIVE FieldMapsOfLen(_)
FieldMapsOfLen(n) ==
  IF n = 0 THEN {<<>>}
  ELSE {Append(o[1], <<o[2], o[3]>>) :
          o \in {x \in FieldMapsOfLen(n - 1) \X FieldKeys \X FieldValues :
                   ~HasOwn(x[1], x[2])}}

FieldMaps == UNION {FieldMapsOfLen(n) : n \in 0..MaxFields}

\* The mapping Company.update passes.
CompanyJsToSql ==
  << <<"numEmployees", JsStr(<<"num_employees">>)>>,
     <<"logoUrl", JsStr(<<"logo_url">>)>> >>

\* The mapping Job.update passes.
JobJsToSql == <<>>

JsToSqlChoices ==
  {JobJsToSql, CompanyJsToSql,
   << <<"title", JsStr(<<"a">>)>> >>,
   << <<"title", JsStr(<<>>)>> >>}

Idle == op.name = "none"

\* The caller takes the outcome of the call; the next call may start.
Complete ==
  /\ ~Idle
  /\ op' = NoOp
  /\ res' = NoCall
  /\ sent' = <<>>
  /\ UNCHANGED <<jobs, companies, jobsIdSeq>>

\* A direct call of sqlForPartialUpdate(dataToUpdate, jsToSql).
CallSqlForPartialUpdate ==
  \E dataToUpdate \in FieldMaps, jsToSql \in JsToSqlChoices :
    /\ Idle
    /\ op' = [name |-> "sqlForPartialUpdate",
              dataToUpdate |-> dataToUpdate, jsToSql |-> jsToSql]
    /\ res' = sqlForPartialUpdate(dataToUpdate, jsToSql)
    /\ sent' = <<>>
    /\ UNCHANGED <<jobs, companies, jobsIdSeq>>

\* The values the query-string criteria are given in the calls.
MinSalaryValues == {JsNum(150)}
HasEquityValues == {JsBool(FALSE), JsBool(TRUE), JsStr(<<"true">>)}
TitleValues == {JsStr(<<"j">>), JsStr(<<"%">>), JsStr(<<"'", ";", "-">>)}
CompanyHandleValues == {JsStr(<<"c", "1">>)}
NameValues == {JsStr(<<"n">>), JsStr(<<"_">>)}
MinEmployeesValues == {JsNum(2)}
MaxEmployeesValues == {JsNum(3)}

Optional(values) == {Undefined} \cup values

\* A direct call of Job._sqlWhereBuilder.
CallJob_sqlWhereBuilder ==
  \E minSalary \in Optional(MinSalaryValues), hasEquity \in Optional(HasEquityValues),
     title \in Optional(TitleValues), companyHandle \in Optional(CompanyHandleValues) :
    /\ Idle
    /\ op' = [name |-> "Job._sqlWhereBuilder", minSalary |-> minSalary,
              hasEquity |-> hasEquity, title |-> title,
              companyHandle |-> companyHandle]
    /\ res' = Return(Job_sqlWhereBuilder(minSalary, hasEquity, title, companyHandle))
    /\ sent' = <<>>
    /\ UNCHANGED <<jobs, companies, jobsIdSeq>>

\* A direct call of Company._sqlWhereBuilder.
CallCompany_sqlWhereBuilder ==
  \E name \in Optional(NameValues), min \in Optional(MinEmployeesValues),
     max \in Optional(MaxEmployeesValues) :
    /\ Idle
    /\ op' = [name |-> "Company._sqlWhereBuilder", nameLike |-> name,
              min |-> min, max |-> max]
    /\ res' = Return(Company_sqlWhereBuilder(name, min, max))
    /\ sent' = <<>>
    /\ UNCHANGED <<jobs, companies, jobsIdSeq>>

\* The filter objects of the calls: each key absent, or present with a value
\* (undefined among them, as a handler forwards a key the request lacks).
Prop(key, values) == {<<>>} \cup {<< <<key, v>> >> : v \in Optional(values)}
Given(key, values) == {<<>>} \cup {<< <<key, v>> >> : v \in values}

JobFilters ==
  {Undefined} \cup
  {JsObj(a \o b \o c \o d) :
     a \in Prop("minSalary", MinSalaryValues), b \in Prop("hasEquity", HasEquityValues),
     c \in Prop("title", TitleValues), d \in Prop("companyHandle", CompanyHandleValues)}

CompanyFilters ==
  {Undefined} \cup
  {JsObj(a \o b \o c \o d \o e) :
     a \in Prop("name", NameValues),
     b \in Given("minEmployees", MinEmployeesValues),
     c \in Given("maxEmployees", MaxEmployeesValues),
     d \in Given("minEmp", MinEmployeesValues),
     e \in Given("maxEmp", MaxEmployeesValues)}

\* Job.findAll(filterBy): the rows the store may answer with, or its error.
Job_findAllOutcomes(filterBy) ==
  LET query == Job_findAllQuery(filterBy)
  IN  DbSelect("jobs", jobs, query.text, query.params, "title")

\* Job.findAll(filterBy)
Job_findAll ==
  \E filterBy \in JobFilters :
    /\ Idle
    /\ op' = [name |-> "Job.findAll", filterBy |-> filterBy]
    /\ sent' = <<Job_findAllQuery(filterBy)>>
    /\ res' \in Job_findAllOutcomes(filterBy)
    /\ UNCHANGED <<jobs, companies, jobsIdSeq>>

\* Company.findAll(filterBy)
Company_findAll ==
  \E filterBy \in CompanyFilters :
    LET query == Company_findAllQuery(filterBy)
    IN  /\ Idle
        /\ op' = [name |-> "Company.findAll", filterBy |-> filterBy]
        /\ sent' = <<query>>
        /\ res' \in DbSelect("companies", companies, query.text, query.params, "name")
        /\ UNCHANGED <<jobs, companies, jobsIdSeq>>

\* The arguments of the update calls.
JobIds == {JsNum(1), JsNum(2), JsNum(9)}
CompanyHandles == {JsStr(<<"c", "1">>), JsStr(<<"c", "3">>)}

RECURSIVE UpdateMapsOfLen(_, _)
UpdateMapsOfLen(n, fields) ==
  IF n = 0 THEN {<<>>}
  ELSE {Append(o[1], o[2]) :
          o \in {x \in UpdateMapsOfLen(n - 1, fields) \X fields :
                   ~HasOwn(x[1], x[2][1])}}

UpdateMaps(fields) == UNION {UpdateMapsOfLen(n, fields) : n \in 0..MaxFields}

JobUpdateFields ==
  {<<"title", JsStr(<<"v">>)>>, <<"salary", JsNum(7)>>, <<"salary", Null>>}
CompanyUpdateFields ==
  {<<"description", JsStr(<<"v">>)>>, <<"numEmployees", JsNum(7)>>}

\* The tables as the store holds them.
Db == [jobs |-> jobs, companies |-> companies]

\* What a call of a model function does: its outcome, the statements it
\* sent, and the tables and the id sequence after it.
Effect(outcome, statements, answer, seq) ==
  [res |-> outcome, sent |-> statements, jobs |-> answer.jobs,
   companies |-> answer.companies, seq |-> seq]

\* A call that ends before it sends a statement.
NothingSent(outcome) == Effect(outcome, <<>>, Db, jobsIdSeq)

\* The call takes effect e.
Apply(e) ==
  /\ res' = e.res
  /\ sent' = e.sent
  /\ jobs' = e.jobs
  /\ companies' = e.companies
  /\ jobsIdSeq' = e.seq

\* Job.update(id, data): the effects it may have.
Job_updateCall(id, data) ==
  LET built == sqlForPartialUpdate(data, JobJsToSql)
  IN  IF ~Returned(built) THEN {NothingSent(built)}
      ELSE LET query == Job_updateQuery(id, built[2])
           IN  {Effect(UpdateResult(answer.outcome), <<query>>, answer, jobsIdSeq) :
                  answer \in DbUpdate("jobs", Db, query.text, query.params)}

\* Job.update(id, data), for id and data drawn from the given sets.
Job_updateOf(ids, maps) ==
  \E id \in ids, data \in maps :
    /\ Idle
    /\ op' = [name |-> "Job.update", id |-> id, data |-> data]
    /\ \E e \in Job_updateCall(id, data) : Apply(e)

Job_update == Job_updateOf(JobIds, UpdateMaps(JobUpdateFields))

\* Company.update(handle, data): the effects it may have.
Company_updateCall(handle, data) ==
  LET built == sqlForPartialUpdate(data, CompanyJsToSql)
  IN  IF ~Returned(built) THEN {NothingSent(built)}
      ELSE LET query == Company_updateQuery(handle, built[2])
           IN  {Effect(UpdateResult(answer.outcome), <<query>>, answer, jobsIdSeq) :
                  answer \in DbUpdate("companies", Db, query.text, query.params)}

\* Company.update(handle, data), for handle and data drawn from the given sets.
Company_updateOf(handles, maps) ==
  \E handle \in handles, data \in maps :
    /\ Idle
    /\ op' = [name |-> "Company.update", id |-> handle, data |-> data]
    /\ \E e \in Company_updateCall(handle, data) : Apply(e)

Company_update == Company_updateOf(CompanyHandles, UpdateMaps(CompanyUpdateFields))

IsCall(name) == op.name = name

(***************************************************************************)
(* The store as it stands when nothing is stored.                          *)
(***************************************************************************)
InitBuilders ==
  /\ jobs = {}
  /\ companies = {}
  /\ jobsIdSeq = 1
  /\ op = NoOp
  /\ res = NoCall
  /\ sent = <<>>

NextBuilders ==
  \/ CallSqlForPartialUpdate
  \/ CallJob_sqlWhereBuilder
  \/ CallCompany_sqlWhereBuilder
  \/ Complete

SpecBuilders == InitBuilders /\ [][NextBuilders]_vars

(***************************************************************************)
(* The rows the stores of the query runs are drawn from.                   *)
(***************************************************************************)
JobRow(id, title, salary, equity, companyHandle) ==
  [id |-> id, title |-> title, salary |-> salary, equity |-> equity,
   companyHandle |-> companyHandle]

CompanyRow(handle, name, numEmployees) ==
  [handle |-> handle, name |-> name, description |-> <<"x">>,
   numEmployees |-> numEmployees, logoUrl |-> Null]

JobPool ==
  {JobRow(1, <<"J", "1">>, JsNum(100), JsNum(100), <<"c", "1">>),
   JobRow(2, <<"j", "2">>, JsNum(200), JsNum(0), <<"c", "2">>),
   JobRow(3, <<"J", "1">>, JsNum(300), Null, <<"c", "1">>)}

CompanyPool ==
  {CompanyRow(<<"c", "1">>, <<"N", "1">>, JsNum(1)),
   CompanyRow(<<"c", "2">>, <<"n", "2">>, JsNum(2)),
   CompanyRow(<<"c", "3">>, <<"n", "3">>, Null)}

InitFind ==
  /\ companies \in SUBSET CompanyPool
  /\ jobs \in SUBSET JobPool
  /\ ForeignKeysHold(jobs, companies)
  /\ jobsIdSeq = 4
  /\ op = NoOp
  /\ res = NoCall
  /\ sent = <<>>

NextFind ==
  \/ Job_findAll
  \/ Company_findAll
  \/ Complete

SpecFind == InitFind /\ [][NextFind]_vars

(***************************************************************************)
(* Runs of updates over a small store.                                     *)
(***************************************************************************)
InitUpdate ==
  /\ jobs = {j \in JobPool : j.id \in {1, 2}}
  /\ companies = {c \in CompanyPool : c.handle \in {<<"c", "1">>, <<"c", "2">>}}
  /\ jobsIdSeq = 3
  /\ op = NoOp
  /\ res = NoCall
  /\ sent = <<>>

NextUpdate ==
  \/ CallSqlForPartialUpdate
  \/ Job_update
  \/ Company_update
  \/ Complete

SpecUpdate == InitUpdate /\ [][NextUpdate]_vars

(***************************************************************************)
(* C1: for a non-empty field map F, setCols is exactly |F| clauses joined  *)
(* by ", " and values has length |F|; the i-th clause ends in $i and is    *)
(* the clause of F's i-th key, and values[i] is the value of that key.     *)
(***************************************************************************)
\* The names a clause for key k may carry: k itself or what jsToSql[k] reads.
NamesOfKey(k, jsToSql) ==
  {<<k>>} \cup {JsToString(v) : v \in {JsGet(jsToSql, k)} \ {Undefined}}

\* C1: |F| clauses and |F| values, clause i numbered $i for the i-th key,
\* values[i] the i-th key's value.
ClausesAligned ==
  (IsCall("sqlForPartialUpdate") /\ Len(op.dataToUpdate) > 0) =>
    /\ Returned(res)
    /\ LET F == op.dataToUpdate
           clauses == Split(res[2].setCols, ", ")
       IN  /\ Len(clauses) = Len(F)
           /\ Len(res[2].values) = Len(F)
           /\ \A i \in 1..Len(F) :
                /\ IsSetClause(clauses[i])
                /\ SetClauseParam(clauses[i]) = i
                /\ SetClauseName(clauses[i]) \in NamesOfKey(F[i][1], op.jsToSql)
                /\ res[2].values[i] = F[i][2]

ClausesAlignedWitness ==
  /\ IsCall("sqlForPartialUpdate")
  /\ Len(op.dataToUpdate) = 2
  /\ op.dataToUpdate[1][2] # op.dataToUpdate[2][2]
  /\ op.jsToSql = CompanyJsToSql
  /\ op.dataToUpdate[2][1] = "numEmployees"
  /\ Returned(res)

(***************************************************************************)
(* C3: the clause of key k names jsToSql's entry for k when jsToSql has    *)
(* an entry for k, and k itself when it has none.                          *)
(***************************************************************************)
\* C3: each clause names the mapping's entry for its key, or the key itself
\* when the mapping has no entry.
MappedOrVerbatim ==
  (IsCall("sqlForPartialUpdate") /\ Returned(res)) =>
    LET F == op.dataToUpdate
        clauses == Split(res[2].setCols, ", ")
    IN  \A i \in 1..Len(F) :
          SetClauseName(clauses[i]) =
            IF HasOwn(op.jsToSql, F[i][1])
            THEN JsToString(JsGet(op.jsToSql, F[i][1]))
            ELSE <<F[i][1]>>

(***************************************************************************)
(* C4: setCols depends on the keys and the mapping only: the same keys in  *)
(* the same order with any other values give the same setCols, and no      *)
(* supplied value occurs in the setCols text.                              *)
(***************************************************************************)
SameKeys(F, G) == ObjectKeys(F) = ObjectKeys(G)

\* C4: setCols is the same for all values of the same keys, and holds no value.
SetColsIgnoresValues ==
  (IsCall("sqlForPartialUpdate") /\ Returned(res)) =>
    /\ \A G \in FieldMapsOfLen(Len(op.dataToUpdate)) :
         SameKeys(op.dataToUpdate, G) =>
           LET other == sqlForPartialUpdate(G, op.jsToSql)
           IN  Returned(other) /\ other[2].setCols = res[2].setCols
    /\ \A i \in 1..Len(op.dataToUpdate) :
         /\ ~Contains(res[2].setCols, JsToString(op.dataToUpdate[i][2]))
         /\ res[2].values[i] = op.dataToUpdate[i][2]

SetColsIgnoresValuesWitness ==
  /\ IsCall("sqlForPartialUpdate")
  /\ Len(op.dataToUpdate) = 2
  /\ op.dataToUpdate[1][2] = JsStr(<<"'", ";", "DROP TABLE jobs", "--">>)
  /\ Returned(res)

(***************************************************************************)
(* C5: with at least one active criterion, both where builders return      *)
(* what the walk over the fixed criterion list returns, and the            *)
(* placeholders of the fragment are $1..$|whereValues| from left to right. *)
(***************************************************************************)
\* The predicates of a where fragment: the text after "WHERE ", split on " AND ".
WherePredicates(text) ==
  IF Len(text) <= 1 THEN <<>> ELSE Split(Tail(text), " AND ")

\* A predicate ends in a placeholder when decimal digits follow a template.
HasPlaceholder(pred) == Len(pred) >= 2 /\ IsDecimal(Tail(pred))
PlaceholderOf(pred) == ParseDec(Tail(pred))

\* The placeholders of the predicates, from left to right.
RECURSIVE Placeholders(_)
Placeholders(preds) ==
  IF Len(preds) = 0 THEN <<>>
  ELSE (IF HasPlaceholder(preds[1]) THEN <<PlaceholderOf(preds[1])>> ELSE <<>>)
         \o Placeholders(Tail(preds))

Criterion(active, template, binds, value) ==
  [active |-> active, template |-> template, binds |-> binds, value |-> value]

JobCriteria(minSalary, hasEquity, title, companyHandle) ==
  << Criterion(minSalary # Undefined, "salary >= $", TRUE, minSalary),
     Criterion(hasEquity = JsBool(TRUE), "equity > 0", FALSE, Undefined),
     Criterion(title # Undefined, "title ILIKE $", TRUE,
               JsStr(<<"%">> \o JsToString(title) \o <<"%">>)),
     Criterion(companyHandle # Undefined, "company_handle ILIKE $", TRUE,
               JsStr(<<"%">> \o JsToString(companyHandle) \o <<"%">>)) >>

CompanyCriteria(name, min, max) ==
  << Criterion(name # Undefined, "name ILIKE $", TRUE,
               JsStr(<<"%">> \o JsToString(name) \o <<"%">>)),
     Criterion(min # Undefined, "num_employees >= $", TRUE, min),
     Criterion(max # Undefined, "num_employees <= $", TRUE, max) >>

\* The walk: each active criterion takes the next unused position.
RECURSIVE Walk(_, _, _)
Walk(criteria, fragments, values) ==
  IF Len(criteria) = 0
  THEN [whereClause |-> <<"WHERE ">> \o Join(fragments, <<" AND ">>),
        whereValues |-> values]
  ELSE LET c == Head(criteria)
       IN  IF ~c.active THEN Walk(Tail(criteria), fragments, values)
           ELSE IF c.binds
           THEN Walk(Tail(criteria),
                     Append(fragments, <<c.template>> \o DecStr(Len(values) + 1)),
                     Append(values, c.value))
           ELSE Walk(Tail(criteria), Append(fragments, <<c.template>>), values)

AnyActive(criteria) == \E i \in 1..Len(criteria) : criteria[i].active

CriteriaOfCall ==
  IF IsCall("Job._sqlWhereBuilder")
  THEN JobCriteria(op.minSalary, op.hasEquity, op.title, op.companyHandle)
  ELSE CompanyCriteria(op.nameLike, op.min, op.max)

\* C5: the builders return what the walk returns; placeholders are
\* $1..$|whereValues| in order.
BuildersFollowWalk ==
  ((IsCall("Job._sqlWhereBuilder") \/ IsCall("Company._sqlWhereBuilder"))
     /\ AnyActive(CriteriaOfCall)) =>
    /\ Returned(res)
    /\ res[2] = Walk(CriteriaOfCall, <<>>, <<>>)
    /\ Placeholders(WherePredicates(res[2].whereClause))
         = [i \in 1..Len(res[2].whereValues) |-> i]

BuildersFollowWalkWitness ==
  /\ IsCall("Job._sqlWhereBuilder")
  /\ op.minSalary = Undefined
  /\ op.hasEquity = JsBool(TRUE)
  /\ op.title # Undefined
  /\ op.companyHandle # Undefined
  /\ Len(res[2].whereValues) = 2

(***************************************************************************)
(* C6: hasEquity false or absent adds no predicate; hasEquity true adds    *)
(* exactly the predicate `equity > 0`, binds no value, and leaves the      *)
(* numbers of the title and companyHandle predicates as they are without   *)
(* it.                                                                     *)
(***************************************************************************)
EquityPredicate == <<"equity > 0">>

CountIn(preds, pred) == Cardinality({i \in 1..Len(preds) : preds[i] = pred})

RECURSIVE Without(_, _)
Without(preds, pred) ==
  IF Len(preds) = 0 THEN <<>>
  ELSE (IF preds[1] = pred THEN <<>> ELSE <<preds[1]>>) \o Without(Tail(preds), pred)

OthersProvided ==
  Cardinality({k \in {"minSalary", "title", "companyHandle"} : op[k] # Undefined})

\* C6: hasEquity adds `equity > 0` only when it is true, and never a value
\* or a shift of the other placeholders.
EquityOnlyWhenTrue ==
  IsCall("Job._sqlWhereBuilder") =>
    LET preds == WherePredicates(res[2].whereClause)
        bare == Job_sqlWhereBuilder(op.minSalary, Undefined, op.title, op.companyHandle)
    IN  /\ op.hasEquity \in {Undefined, JsBool(FALSE)} =>
             /\ CountIn(preds, EquityPredicate) = 0
             /\ Len(preds) = OthersProvided
        /\ op.hasEquity = JsBool(TRUE) =>
             /\ CountIn(preds, EquityPredicate) = 1
             /\ Len(preds) = OthersProvided + 1
             /\ Len(res[2].whereValues) = OthersProvided
             /\ res[2].whereValues = bare.whereValues
             /\ Without(preds, EquityPredicate) = WherePredicates(bare.whereClause)

EquityOnlyWhenTrueWitness ==
  /\ IsCall("Job._sqlWhereBuilder")
  /\ op.hasEquity = JsBool(TRUE)
  /\ op.minSalary # Undefined
  /\ op.title # Undefined
  /\ Len(res[2].whereValues) = 2

(***************************************************************************)
(* What the claims about findAll speak of.                                 *)
(***************************************************************************)
\* The filter object carries key with a value that is not undefined.
Provided(filterBy, key) ==
  /\ IsObject(filterBy)
  /\ \E i \in 1..Len(filterBy[2]) :
       filterBy[2][i][1] = key /\ filterBy[2][i][2] # Undefined

ValueOf(filterBy, key) ==
  filterBy[2][CHOOSE i \in 1..Len(filterBy[2]) : filterBy[2][i][1] = key][2]

\* text contains part as literal text, letter case ignored.
ContainsLiteral(text, part) ==
  \E i \in 0..(Len(text) - Len(part)) :
    \A j \in 1..Len(part) : Lower(text[i + j]) = Lower(part[j])

\* The active Job criteria of a filter object.
JobActive(filterBy) ==
  {k \in {"minSalary", "title", "companyHandle"} : Provided(filterBy, k)}
    \cup {k \in {"hasEquity"} :
            Provided(filterBy, k) /\ ValueOf(filterBy, k) = JsBool(TRUE)}

\* The job satisfies every active criterion of the filter object.
JobMatches(j, filterBy) ==
  /\ "minSalary" \in JobActive(filterBy) =>
       j.salary # Null /\ j.salary[2] >= ValueOf(filterBy, "minSalary")[2]
  /\ "hasEquity" \in JobActive(filterBy) => j.equity # Null /\ j.equity[2] > 0
  /\ "title" \in JobActive(filterBy) =>
       ContainsLiteral(j.title, JsToString(ValueOf(filterBy, "title")))
  /\ "companyHandle" \in JobActive(filterBy) =>
       ContainsLiteral(j.companyHandle, JsToString(ValueOf(filterBy, "companyHandle")))

RowsOf(r) == {r[2][i] : i \in 1..Len(r[2])}

\* The call returned exactly the rows of the set, each once, sorted by column.
ReturnedSorted(r, rows, column) ==
  /\ Returned(r)
  /\ RowsOf(r) = rows
  /\ Len(r[2]) = Cardinality(rows)
  /\ \A i \in 1..(Len(r[2]) - 1) : TextLeq(r[2][i][column], r[2][i + 1][column])

(***************************************************************************)
(* C7: the where fragment of both builders depends only on which criteria  *)
(* are active, every value travels in whereValues only, and Job.findAll    *)
(* with a title value returns the jobs whose title contains that literal   *)
(* text.                                                                   *)
(***************************************************************************)
\* C7: values never reach the statement text, and a title value selects the
\* jobs whose title contains it literally.
ValuesNeverAlterStatement ==
  /\ (IsCall("Job.findAll") /\ Provided(op.filterBy, "title")) =>
       LET title == ValueOf(op.filterBy, "title")
       IN  /\ \A other \in JobFilters :
                (IsObject(other) /\ JobActive(other) = JobActive(op.filterBy)) =>
                  Job_findAllQuery(other).text = sent[1].text
           /\ ~Contains(sent[1].text, JsToString(title))
           /\ \E i \in 1..Len(sent[1].params) :
                sent[1].params[i] = JsStr(<<"%">> \o JsToString(title) \o <<"%">>)
           /\ JobActive(op.filterBy) = {"title"} =>
                ReturnedSorted(res, {j \in jobs : JobMatches(j, op.filterBy)}, "title")
  /\ (IsCall("Company.findAll") /\ Provided(op.filterBy, "name")) =>
       LET name == ValueOf(op.filterBy, "name")
       IN  /\ ~Contains(sent[1].text, JsToString(name))
           /\ \E i \in 1..Len(sent[1].params) :
                sent[1].params[i] = JsStr(<<"%">> \o JsToString(name) \o <<"%">>)

(***************************************************************************)
(* C8: when no criterion of the filter argument is active, findAll sends   *)
(* a statement without WHERE, binds no value and returns every record.     *)
(***************************************************************************)
CompanyFilterKeys == {"name", "minEmployees", "maxEmployees", "minEmp", "maxEmp"}

\* C8: no active criterion: no WHERE, no bound value, every record returned.
NoWhereWhenNothingActive ==
  /\ (IsCall("Job.findAll") /\ JobActive(op.filterBy) = {}) =>
       /\ ~Contains(sent[1].text, <<"WHERE ">>)
       /\ sent[1].params = <<>>
       /\ ReturnedSorted(res, jobs, "title")
  /\ (IsCall("Company.findAll")
        /\ \A k \in CompanyFilterKeys : ~Provided(op.filterBy, k)) =>
       /\ ~Contains(sent[1].text, <<"WHERE ">>)
       /\ sent[1].params = <<>>
       /\ ReturnedSorted(res, companies, "name")

(***************************************************************************)
(* C9: Job.findAll(filters) returns exactly the stored jobs that satisfy   *)
(* every active criterion, each once, ordered by title; with no filter it  *)
(* returns every stored job in title order.                                *)
(***************************************************************************)
\* C9: Job.findAll returns exactly the matching jobs, each once, by title.
FindAllReturnsMatchingJobs ==
  IsCall("Job.findAll") =>
    ReturnedSorted(res, {j \in jobs : JobMatches(j, op.filterBy)}, "title")

(***************************************************************************)
(* C10: Company.findAll with minEmployees = m and/or maxEmployees = n      *)
(* returns exactly the stored companies with at least m and/or at most n   *)
(* employees, ordered by name.                                             *)
(***************************************************************************)
CompanyInRange(c, filterBy) ==
  /\ Provided(filterBy, "minEmployees") =>
       c.numEmployees # Null
         /\ c.numEmployees[2] >= ValueOf(filterBy, "minEmployees")[2]
  /\ Provided(filterBy, "maxEmployees") =>
       c.numEmployees # Null
         /\ c.numEmployees[2] <= ValueOf(filterBy, "maxEmployees")[2]

\* C10: minEmployees/maxEmployees select the companies in that range, by name.
EmployeeRangeFilters ==
  (/\ IsCall("Company.findAll")
   /\ Provided(op.filterBy, "minEmployees") \/ Provided(op.filterBy, "maxEmployees")
   /\ \A k \in {"name", "minEmp", "maxEmp"} : ~Provided(op.filterBy, k)) =>
    ReturnedSorted(res, {c \in companies : CompanyInRange(c, op.filterBy)}, "name")

(***************************************************************************)
(* C2: sqlForPartialUpdate with a field map of no entries fails with       *)
(* BadRequestError whatever the mapping; Job.update and Company.update     *)
(* with an empty field map fail with it before any statement is sent, and  *)
(* no stored row changes.                                                  *)
(***************************************************************************)
IsUpdateCall(o) == o.name \in {"Job.update", "Company.update"}

EmptyRejected ==
  /\ (IsCall("sqlForPartialUpdate") /\ Len(op.dataToUpdate) = 0) =>
       Threw(res, "BadRequestError")
  /\ (IsUpdateCall(op) /\ Len(op.data) = 0) =>
       Threw(res, "BadRequestError") /\ sent = <<>>

EmptyLeavesStore ==
  (IsUpdateCall(op') /\ Len(op'.data) = 0) =>
    jobs' = jobs /\ companies' = companies

\* C2: an empty field map is rejected with BadRequestError, nothing is sent
\* and no row changes.
EmptyUpdateRejected == []EmptyRejected /\ [][EmptyLeavesStore]_vars

EmptyUpdateRejectedWitness ==
  /\ IsCall("Job.update")
  /\ Len(op.data) = 0
  /\ op.id = JsNum(1)
  /\ \E j \in jobs : j.id = 1 /\ j.title = <<"v">>
  /\ Threw(res, "BadRequestError")

(***************************************************************************)
(* The store's answers to the statements that name one row by its primary  *)
(* key, and to the INSERT statements.                                      *)
(***************************************************************************)
\* The rows whose primary key equals the bound value (none equals NULL).
RowsByKey(table, rows, v) ==
  IF IsNullParam(v) THEN {}
  ELSE {r \in rows : r[PrimaryKey[table]] = Stored(PrimaryKey[table], v)}

\* SELECT ... FROM <table> WHERE <key> = $1
DbSelectByKey(table, db, params) ==
  IF ~ParamFits(PrimaryKey[table], params[1]) THEN Refused(db)
  ELSE Answer(Return(RowsByKey(table, db[table], params[1])), db.jobs, db.companies)

\* DELETE FROM <table> WHERE <key> = $1 RETURNING <key>: the answers the store
\* may give.  A company that still has jobs is kept, or goes with its jobs.
DbDelete(table, db, params) ==
  IF ~ParamFits(PrimaryKey[table], params[1]) THEN {Refused(db)}
  ELSE LET hit == RowsByKey(table, db[table], params[1])
           after == db[table] \ hit
       IN  IF table = "jobs" THEN {Answer(Return(hit), after, db.companies)}
           ELSE IF ForeignKeysHold(db.jobs, after)
           THEN {Answer(Return(hit), db.jobs, after)}
           ELSE {IF a = "restrict" THEN Refused(db)
                 ELSE Answer(Return(hit),
                             {j \in db.jobs : ForeignKeysHold({j}, after)}, after) :
                   a \in ReferentialActions}

\* INSERT INTO jobs (title, salary, equity, company_handle)
\* VALUES ($1, $2, $3, $4) RETURNING ...: the answer and the sequence after it.
\* The id is drawn from the sequence before the row is checked.
DbInsertJob(db, seq, params) ==
  LET columns == <<"title", "salary", "equity", "company_handle">>
      row == [id |-> seq,
              title |-> Stored("title", params[1]),
              salary |-> Stored("salary", params[2]),
              equity |-> Stored("equity", params[3]),
              companyHandle |-> Stored("company_handle", params[4])]
  IN  IF \E i \in 1..4 : ~ParamFits(columns[i], params[i])
      THEN [answer |-> Refused(db), seq |-> seq]
      ELSE IF \/ ~NotNullHolds("jobs", row)
              \/ \E j \in db.jobs : j.id = seq
              \/ ~ForeignKeysHold({row}, db.companies)
      THEN [answer |-> Refused(db), seq |-> seq + 1]
      ELSE [answer |-> Answer(Return({row}), db.jobs \cup {row}, db.companies),
            seq |-> seq + 1]

\* INSERT INTO companies (handle, name, description, num_employees, logo_url)
\* VALUES ($1, $2, $3, $4, $5) RETURNING ...
DbInsertCompany(db, params) ==
  LET columns == <<"handle", "name", "description", "num_employees", "logo_url">>
      row == [handle |-> Stored("handle", params[1]),
              name |-> Stored("name", params[2]),
              description |-> Stored("description", params[3]),
              numEmployees |-> Stored("num_employees", params[4]),
              logoUrl |-> Stored("logo_url", params[5])]
  IN  IF \/ \E i \in 1..5 : ~ParamFits(columns[i], params[i])
         \/ ~NotNullHolds("companies", row)
         \/ \E c \in db.companies : c.handle = row.handle
      THEN Refused(db)
      ELSE Answer(Return({row}), db.jobs, db.companies \cup {row})

(***************************************************************************)
(* models/job.js: Job.create, Job.get, Job.remove                          *)
(***************************************************************************)
InsertJob ==
  "INSERT INTO jobs (title, salary, equity, company_handle) VALUES ($1, $2, $3, $4) RETURNING id, title, salary, equity, company_handle AS \"companyHandle\""
SelectJobById ==
  "SELECT id, title, salary, equity, company_handle AS \"companyHandle\" FROM jobs WHERE id = $1"
DeleteJobById == "DELETE FROM jobs WHERE id = $1 RETURNING id"

Query(text, params) == [text |-> <<text>>, params |-> params]

\* Job.create({ title, salary, equity, companyHandle }): returns result.rows[0].
Job_createCall(data) ==
  LET params == <<JsGet(data, "title"), JsGet(data, "salary"),
                  JsGet(data, "equity"), JsGet(data, "companyHandle")>>
      inserted == DbInsertJob(Db, jobsIdSeq, params)
  IN  {Effect(IF Returned(inserted.answer.outcome)
              THEN Return(CHOOSE r \in inserted.answer.outcome[2] : TRUE)
              ELSE inserted.answer.outcome,
              <<Query(InsertJob, params)>>, inserted.answer, inserted.seq)}

\* Job.get(id): the row, or NotFoundError when the store returns none.
Job_getCall(id) ==
  LET answer == DbSelectByKey("jobs", Db, <<id>>)
  IN  {Effect(UpdateResult(answer.outcome), <<Query(SelectJobById, <<id>>)>>,
              answer, jobsIdSeq)}

\* What remove makes of the store's answer: undefined, or not found.
RemoveResult(outcome) ==
  IF ~Returned(outcome) THEN outcome
  ELSE IF outcome[2] = {} THEN Throw("NotFoundError")
  ELSE Return(Undefined)

\* Job.remove(id)
Job_removeCall(id) ==
  {Effect(RemoveResult(answer.outcome), <<Query(DeleteJobById, <<id>>)>>,
          answer, jobsIdSeq) :
     answer \in DbDelete("jobs", Db, <<id>>)}

(***************************************************************************)
(* models/company.js: Company.create, Company.get, Company.remove          *)
(***************************************************************************)
SelectHandle == "SELECT handle FROM companies WHERE handle = $1"
InsertCompany ==
  "INSERT INTO companies (handle, name, description, num_employees, logo_url) VALUES ($1, $2, $3, $4, $5) RETURNING handle, name, description, num_employees AS \"numEmployees\", logo_url AS \"logoUrl\""
SelectCompanyByHandle ==
  "SELECT handle, name, description, num_employees AS \"numEmployees\", logo_url AS \"logoUrl\" FROM companies WHERE handle = $1"
DeleteCompanyByHandle == "DELETE FROM companies WHERE handle = $1 RETURNING handle"

\* new BadRequestError(`Duplicate company: ${handle}`)
DuplicateCompany == "BadRequestError: Duplicate company"

\* Inserts without the duplicate check.
Company_createCallUnchecked(data) ==
  LET handle == JsGet(data, "handle")
      params == <<handle, JsGet(data, "name"), JsGet(data, "description"),
                  JsGet(data, "numEmployees"), JsGet(data, "logoUrl")>>
      inserted == DbInsertCompany(Db, params)
  IN  {Effect(IF Returned(inserted.outcome)
              THEN Return(CHOOSE r \in inserted.outcome[2] : TRUE)
              ELSE inserted.outcome,
              <<Query(InsertCompany, params)>>, inserted, jobsIdSeq)}

\* Company.create({ handle, name, description, numEmployees, logoUrl }): the
\* duplicate check, then the insert.
Company_createCall(data) ==
  LET handle == JsGet(data, "handle")
      duplicateCheck == DbSelectByKey("companies", Db, <<handle>>)
      params == <<handle, JsGet(data, "name"), JsGet(data, "description"),
                  JsGet(data, "numEmployees"), JsGet(data, "logoUrl")>>
      inserted == DbInsertCompany(Db, params)
  IN  IF ~Returned(duplicateCheck.outcome)
      THEN {Effect(duplicateCheck.outcome, <<Query(SelectHandle, <<handle>>)>>,
                   Db, jobsIdSeq)}
      ELSE IF duplicateCheck.outcome[2] # {}
      THEN {Effect(Throw(DuplicateCompany), <<Query(SelectHandle, <<handle>>)>>,
                   Db, jobsIdSeq)}
      ELSE {Effect(IF Returned(inserted.outcome)
                   THEN Return(CHOOSE r \in inserted.outcome[2] : TRUE)
                   ELSE inserted.outcome,
                   <<Query(SelectHandle, <<handle>>), Query(InsertCompany, params)>>,
                   inserted, jobsIdSeq)}

\* A promise: pending, or settled with a value.
Pending == <<"promise", "pending">>
Fulfilled(v) == <<"promise", "fulfilled", v>>
Rejected(e) == <<"promise", "rejected", e>>

\* company["jobs"] = jobs
WithJobs(company, jobsValue) ==
  [f \in DOMAIN company \cup {"jobs"} |->
     IF f = "jobs" THEN jobsValue ELSE company[f]]

\* Company.get(handle).  Job.findAll is called and not awaited: it sends its
\* statement and hands back a pending promise, which is assigned to
\* company["jobs"] before company is tested; with no row that assignment
\* throws a TypeError.
Company_getCall(handle) ==
  LET answer == DbSelectByKey("companies", Db, <<handle>>)
      companyQuery == Query(SelectCompanyByHandle, <<handle>>)
      jobsQuery == Job_findAllQuery(JsObj(<< <<"companyHandle", handle>> >>))
  IN  IF ~Returned(answer.outcome)
      THEN {Effect(answer.outcome, <<companyQuery>>, Db, jobsIdSeq)}
      ELSE IF answer.outcome[2] = {}
      THEN {Effect(Throw("TypeError"), <<companyQuery, jobsQuery>>, Db, jobsIdSeq)}
      ELSE {Effect(Return(WithJobs(CHOOSE r \in answer.outcome[2] : TRUE, Pending)),
                   <<companyQuery, jobsQuery>>, Db, jobsIdSeq)}

\* Company.remove(handle)
Company_removeCall(handle) ==
  {Effect(RemoveResult(answer.outcome), <<Query(DeleteCompanyByHandle, <<handle>>)>>,
          answer, jobsIdSeq) :
     answer \in DbDelete("companies", Db, <<handle>>)}

(***************************************************************************)
(* routes/jobs.js: the handlers of /jobs behind the authorization          *)
(* middleware, and the response the error handler makes of a failure.      *)
(***************************************************************************)
MaxJobId == 4

\* res.locals.user: absent for an anonymous request, else the token's payload.
Anonymous == Undefined
User(isAdmin) == JsObj(<< <<"isAdmin", JsBool(isAdmin)>> >>)
Users == {Anonymous, User(FALSE), User(TRUE)}

\* A middleware that lets the request through calls next() without an error.
Next == <<"next">>

ensureLoggedIn(user) ==
  IF user = Undefined THEN Throw("UnauthorizedError") ELSE Next

ensureAdminAnyUser(user) == Next

ensureAdmin(user) ==
  IF JsGet(user[2], "isAdmin") = JsBool(TRUE) THEN Next ELSE Throw("ForbiddenError")

\* router.<method>(path, ensureLoggedIn, ensureAdmin, handler): the handler
\* runs when both let the request through.
Authorize(user) ==
  IF ensureLoggedIn(user) # Next THEN ensureLoggedIn(user) ELSE ensureAdmin(user)

\* The status the error handler answers a failure with.
StatusOf(error) ==
  CASE error = "UnauthorizedError" -> 401
    [] error = "ForbiddenError" -> 403
    [] error = "BadRequestError" -> 400
    [] error = DuplicateCompany -> 400
    [] error = "NotFoundError" -> 404
    [] OTHER -> 500

Respond(status, body) == <<"response", status, body>>

\* The response to a handler's outcome: res.status(ok).json(body), or the
\* error handler's answer.
ResponseTo(outcome, ok) ==
  IF Returned(outcome) THEN Respond(ok, outcome[2])
  ELSE Respond(StatusOf(outcome[2]), outcome[2])

\* jsonschema.validate(req.body, jobNewSchema).valid
JobNewValid(body) ==
  /\ HasOwn(body, "title") /\ HasOwn(body, "companyHandle")
  /\ \A k \in {ObjectKeys(body)[i] : i \in 1..Len(body)} :
       k \in {"title", "salary", "equity", "companyHandle"}

\* jsonschema.validate(req.body, jobUpdateSchema).valid
JobUpdateValid(body) ==
  \A k \in {ObjectKeys(body)[i] : i \in 1..Len(body)} :
    k \in {"title", "salary", "equity"}

\* What the requests carry.
NewJob ==
  << <<"companyHandle", JsStr(<<"c", "1">>)>>, <<"title", JsStr(<<"j">>)>>,
     <<"salary", JsNum(100)>>, <<"equity", JsNum(100)>> >>
PostBodies == {NewJob, << <<"companyHandle", JsStr(<<"c", "1">>)>> >>}
PatchBodies == {<< <<"title", JsStr(<<"v">>)>> >>, << <<"handle", JsStr(<<"v">>)>> >>}
PathIds == {JsStr(<<"1">>), JsStr(<<"9">>), JsStr(<<"c", "1">>)}

\* req.query: every value of a query string is a string.
QueryStrings ==
  {a \o b \o c \o d :
     a \in Given("minSalary", {JsStr(<<"1", "5", "0">>)}),
     b \in Given("hasEquity", {JsStr(<<"true">>), JsStr(<<"false">>)}),
     c \in Given("title", {JsStr(<<"j">>)}),
     d \in Given("companyHandle", {JsStr(<<"c", "1">>)})}

\* The argument GET /jobs passes to Job.findAll for a query.
FilterOfQuery(query) ==
  LET minSalary == JsGet(query, "minSalary")
      hasEquity == JsGet(query, "hasEquity")
      title == JsGet(query, "title")
      companyHandle == JsGet(query, "companyHandle")
  IN  IF /\ minSalary = Undefined /\ hasEquity = Undefined
         /\ title = Undefined /\ companyHandle = Undefined
      THEN Undefined
      ELSE JsObj(<< <<"minSalary", minSalary>>, <<"hasEquity", hasEquity>>,
                    <<"title", title>>, <<"companyHandle", companyHandle>> >>)

\* The request ends before the handler calls the model.
Reject(outcome) == Apply(NothingSent(ResponseTo(outcome, 200)))

\* POST /jobs
PostJob ==
  \E user \in Users, body \in PostBodies :
    /\ Idle
    /\ jobsIdSeq <= MaxJobId
    /\ op' = [name |-> "POST /jobs", user |-> user, body |-> body]
    /\ IF Authorize(user) # Next THEN Reject(Authorize(user))
       ELSE IF ~JobNewValid(body) THEN Reject(Throw("BadRequestError"))
       ELSE \E e \in Job_createCall(body) :
              Apply([e EXCEPT !.res = ResponseTo(e.res, 201)])

\* GET /jobs
GetJobs ==
  \E user \in Users, query \in QueryStrings :
    /\ Idle
    /\ op' = [name |-> "GET /jobs", user |-> user, query |-> query]
    /\ sent' = <<Job_findAllQuery(FilterOfQuery(query))>>
    /\ \E r \in Job_findAllOutcomes(FilterOfQuery(query)) : res' = ResponseTo(r, 200)
    /\ UNCHANGED <<jobs, companies, jobsIdSeq>>

\* GET /jobs/:id
GetJob ==
  \E user \in Users, id \in PathIds :
    /\ Idle
    /\ op' = [name |-> "GET /jobs/:id", user |-> user, id |-> id]
    /\ \E e \in Job_getCall(id) : Apply([e EXCEPT !.res = ResponseTo(e.res, 200)])

\* PATCH /jobs/:id
PatchJob ==
  \E user \in Users, id \in PathIds, body \in PatchBodies :
    /\ Idle
    /\ op' = [name |-> "PATCH /jobs/:id", user |-> user, id |-> id, body |-> body]
    /\ IF Authorize(user) # Next THEN Reject(Authorize(user))
       ELSE IF ~JobUpdateValid(body) THEN Reject(Throw("BadRequestError"))
       ELSE \E e \in Job_updateCall(id, body) :
              Apply([e EXCEPT !.res = ResponseTo(e.res, 200)])

\* DELETE /jobs/:id
DeleteJob ==
  \E user \in Users, id \in PathIds :
    /\ Idle
    /\ op' = [name |-> "DELETE /jobs/:id", user |-> user, id |-> id]
    /\ IF Authorize(user) # Next THEN Reject(Authorize(user))
       ELSE \E e \in Job_removeCall(id) :
              Apply([e EXCEPT !.res = IF Returned(e.res) THEN Respond(200, id)
                                      ELSE ResponseTo(e.res, 200)])

(***************************************************************************)
(* Runs of requests to /jobs over the stored fixture rows.                 *)
(***************************************************************************)
InitRoutes ==
  /\ jobs = JobPool
  /\ companies = CompanyPool
  /\ jobsIdSeq = 4
  /\ op = NoOp
  /\ res = NoCall
  /\ sent = <<>>

NextRoutes ==
  \/ PostJob
  \/ GetJobs
  \/ GetJob
  \/ PatchJob
  \/ DeleteJob
  \/ Complete

SpecRoutes == InitRoutes /\ [][NextRoutes]_vars

(***************************************************************************)
(* C11: GET /jobs responds with exactly the jobs that match every filter   *)
(* the query string supplies, in title order, and with every job when it   *)
(* supplies none; hasEquity=true selects the jobs whose equity is above 0. *)
(***************************************************************************)
\* The job satisfies every filter the query string supplies.
QueryMatches(j, query) ==
  /\ HasOwn(query, "minSalary") =>
       j.salary # Null /\ j.salary[2] >= ParseDec(JsGet(query, "minSalary")[2])
  /\ JsGet(query, "hasEquity") = JsStr(<<"true">>) =>
       j.equity # Null /\ j.equity[2] > 0
  /\ HasOwn(query, "title") =>
       ContainsLiteral(j.title, JsGet(query, "title")[2])
  /\ HasOwn(query, "companyHandle") =>
       ContainsLiteral(j.companyHandle, JsGet(query, "companyHandle")[2])

\* C11: GET /jobs answers 200 with exactly the matching jobs, by title.
GetJobsReturnsMatches ==
  IsCall("GET /jobs") =>
    /\ res[2] = 200
    /\ ReturnedSorted(Return(res[3]), {j \in jobs : QueryMatches(j, op.query)}, "title")

(***************************************************************************)
(* Calls of get over stores drawn from the fixture rows.                   *)
(***************************************************************************)
\* Job.get(id)
Job_get ==
  \E id \in JobIds :
    /\ Idle
    /\ op' = [name |-> "Job.get", id |-> id]
    /\ \E e \in Job_getCall(id) : Apply(e)

\* The handles get is called with: stored ones, one of them part of the
\* others, and one that may be missing.
GetHandles == CompanyHandles \cup {JsStr(<<"c">>)}

\* Company.get(handle)
Company_get ==
  \E handle \in GetHandles :
    /\ Idle
    /\ op' = [name |-> "Company.get", handle |-> handle]
    /\ \E e \in Company_getCall(handle) : Apply(e)

\* The store answers the statement of the Job.findAll that Company.get left
\* running: the promise held by the returned company settles.
Job_findAllSettles ==
  /\ IsCall("Company.get")
  /\ Returned(res)
  /\ res[2].jobs = Pending
  /\ \E r \in DbSelect("jobs", jobs, sent[2].text, sent[2].params, "title") :
       res' = Return(WithJobs(res[2], IF Returned(r) THEN Fulfilled(r[2])
                                      ELSE Rejected(r[2])))
  /\ UNCHANGED <<jobs, companies, jobsIdSeq, op, sent>>

InitGet ==
  /\ companies \in SUBSET (CompanyPool \cup {CompanyRow(<<"c">>, <<"n">>, JsNum(3))})
  /\ jobs \in SUBSET JobPool
  /\ ForeignKeysHold(jobs, companies)
  /\ jobsIdSeq = 4
  /\ op = NoOp
  /\ res = NoCall
  /\ sent = <<>>

NextGet ==
  \/ Job_get
  \/ Company_get
  \/ Job_findAllSettles
  \/ Complete

SpecGet == InitGet /\ [][NextGet]_vars

(***************************************************************************)
(* C12: get of a key with no stored row fails with NotFoundError and with  *)
(* no other error, whatever is stored: Company.get(handle) and Job.get(id).*)
(***************************************************************************)
CompanyStored(handle) == \E c \in companies : c.handle = JsToString(handle)
JobStored(id) == \E j \in jobs : j.id = id[2]

\* C12: get on a missing handle or id fails with NotFoundError.
GetMissingIsNotFound ==
  /\ (IsCall("Company.get") /\ ~CompanyStored(op.handle)) =>
       Threw(res, "NotFoundError")
  /\ (IsCall("Job.get") /\ ~JobStored(op.id)) => Threw(res, "NotFoundError")

(***************************************************************************)
(* C13: Company.get(handle) on a stored company returns its fields and,    *)
(* as jobs, the sequence of exactly the stored jobs whose company handle   *)
(* is that handle, resolved when the call returns.                         *)
(***************************************************************************)
\* The jobs the company with the handle owns.
JobsOf(handle) == {j \in jobs : j.companyHandle = JsToString(handle)}

\* C13: Company.get returns the company with the sequence of its own jobs.
CompanyGetAttachesOwnJobs ==
  (IsCall("Company.get") /\ CompanyStored(op.handle)) =>
    /\ Returned(res)
    /\ \E c \in companies :
         c.handle = JsToString(op.handle) /\ \A f \in DOMAIN c : res[2][f] = c[f]
    /\ res[2].jobs[1] = "array"
    /\ ReturnedSorted(Return(res[2].jobs[2]), JobsOf(op.handle), "title")

(***************************************************************************)
(* C14: Job.update and Company.update with a primary key that has no       *)
(* stored row fail with NotFoundError and leave the store as it was: no    *)
(* row changed, added or removed.  As stated it covers every field map;    *)
(* it holds for the field maps that have an entry.                         *)
(***************************************************************************)
\* The step is an update call whose key has no row in the store it meets.
UpdateOfMissingKey ==
  /\ Idle
  /\ IsUpdateCall(op')
  /\ IF op'.name = "Job.update" THEN \A j \in jobs : j.id # op'.id[2]
     ELSE \A c \in companies : c.handle # op'.id[2]

FailsNotFoundUntouched ==
  /\ res' = Throw("NotFoundError")
  /\ jobs' = jobs
  /\ companies' = companies

\* C14 (as stated): update of a missing key fails with NotFoundError and
\* changes nothing, whatever the field map.
MissingUpdateAlwaysNotFound ==
  [][UpdateOfMissingKey => FailsNotFoundUntouched]_vars

\* C14 (amended): update of a missing key with a field map of at least one
\* entry fails with NotFoundError and changes nothing.
MissingUpdateNotFound ==
  [][(UpdateOfMissingKey /\ Len(op'.data) > 0) => FailsNotFoundUntouched]_vars

MissingUpdateNotFoundWitness ==
  /\ IsCall("Job.update")
  /\ op.id = JsNum(9)
  /\ Len(op.data) = 2
  /\ Threw(res, "NotFoundError")
  /\ Len(sent) = 1
  /\ \E j \in jobs : j.id = 1 /\ j.title = <<"v">>

(***************************************************************************)
(* C15: a successful Job.update or Company.update sets exactly the fields  *)
(* its field map names to the supplied values (null included) on the one   *)
(* row with that key, leaves that row's other fields and every other row   *)
(* as they were, and returns the row as stored afterwards.                 *)
(***************************************************************************)
\* What a row holds for a supplied value: the text of a string, else the value.
HeldFor(v) == IF IsStr(v) THEN v[2] ELSE v

UpdateSucceeds == Idle /\ IsUpdateCall(op') /\ Returned(res')

SetsExactlyNamedFields ==
  LET ofJobs == op'.name = "Job.update"
      before == IF ofJobs THEN jobs ELSE companies
      after == IF ofJobs THEN jobs' ELSE companies'
      old == {r \in before : r[IF ofJobs THEN "id" ELSE "handle"] = op'.id[2]}
  IN  /\ Cardinality(old) = 1
      /\ \A o \in old :
           /\ DOMAIN res'[2] = DOMAIN o
           /\ \A f \in DOMAIN o :
                res'[2][f] = IF HasOwn(op'.data, f) THEN HeldFor(JsGet(op'.data, f))
                             ELSE o[f]
      /\ after = (before \ old) \cup {res'[2]}
      /\ IF ofJobs THEN companies' = companies ELSE jobs' = jobs

\* C15: a successful update changes the named fields of the one row, nothing
\* else, and returns the row as stored.
UpdateSetsNamedFieldsOnly == [][UpdateSucceeds => SetsExactlyNamedFields]_vars

UpdateSetsNamedFieldsOnlyWitness ==
  /\ IsCall("Job.update")
  /\ op.id = JsNum(1)
  /\ op.data = << <<"salary", Null>>, <<"title", JsStr(<<"v">>)>> >>
  /\ Returned(res)
  /\ res[2] = JobRow(1, <<"v">>, Null, JsNum(100), <<"c", "1">>)
  /\ res[2] \in jobs
  /\ \E j \in jobs : j.id = 2 /\ j.salary = JsNum(7) /\ j.title = <<"j", "2">>

(***************************************************************************)
(* Calls of create and remove, and the runs that mix them with get and     *)
(* update.                                                                 *)
(***************************************************************************)
\* The argument of Job.create: a new job of one of the companies.
JobCreateData ==
  {<< <<"title", JsStr(<<"j">>)>>, <<"salary", JsNum(100)>>,
      <<"equity", JsNum(100)>>, <<"companyHandle", handle>> >> :
     handle \in CompanyHandles}

\* The argument of Company.create: a company with one of the handles, under
\* the name the fixture gives it or another.
CompanyCreateData ==
  {<< <<"handle", JsStr(c.handle)>>, <<"name", JsStr(name)>>,
      <<"description", JsStr(c.description)>>,
      <<"numEmployees", c.numEmployees>>, <<"logoUrl", c.logoUrl>> >> :
     c \in {r \in CompanyPool : JsStr(r.handle) \in CompanyHandles},
     name \in {<<"N", "1">>, <<"v">>}}

\* Job.create(data); the run stops creating once the sequence passes MaxJobId.
Job_create ==
  \E data \in JobCreateData :
    /\ Idle
    /\ jobsIdSeq <= MaxJobId
    /\ op' = [name |-> "Job.create", data |-> data]
    /\ \E e \in Job_createCall(data) : Apply(e)

\* Company.create(data)
Company_create ==
  \E data \in CompanyCreateData :
    /\ Idle
    /\ op' = [name |-> "Company.create", data |-> data]
    /\ \E e \in Company_createCall(data) : Apply(e)

\* Job.remove(id)
Job_remove ==
  \E id \in JobIds :
    /\ Idle
    /\ op' = [name |-> "Job.remove", id |-> id]
    /\ \E e \in Job_removeCall(id) : Apply(e)

\* Company.remove(handle)
Company_remove ==
  \E handle \in CompanyHandles :
    /\ Idle
    /\ op' = [name |-> "Company.remove", id |-> handle]
    /\ \E e \in Company_removeCall(handle) : Apply(e)

\* Field maps that name identifiers: a job's id and company, a company's handle.
JobIdentifierFields ==
  {<<"id", JsNum(9)>>, <<"company_handle", JsStr(<<"c", "3">>)>>}
CompanyIdentifierFields == {<<"handle", JsStr(<<"c", "3">>)>>}

\* Job.update(id, data) with a field map that names identifiers.
Job_updateIdentifiers == Job_updateOf(JobIds, UpdateMaps(JobIdentifierFields))

\* Company.update(handle, data) with a field map that names the handle.
Company_updateIdentifiers ==
  Company_updateOf(CompanyHandles, UpdateMaps(CompanyIdentifierFields))

\* Runs of create alone, from the stores drawn from the fixture rows.
InitCreate ==
  /\ companies \in SUBSET CompanyPool
  /\ jobs \in SUBSET {j \in JobPool : j.id < 3}
  /\ ForeignKeysHold(jobs, companies)
  /\ jobsIdSeq = 3
  /\ op = NoOp
  /\ res = NoCall
  /\ sent = <<>>

NextCreate ==
  \/ Job_create
  \/ Company_create
  \/ Complete

SpecCreate == InitCreate /\ [][NextCreate]_vars

\* Runs of every operation of the two models.
NextLifecycle ==
  \/ Job_create
  \/ Company_create
  \/ Job_get
  \/ Job_updateIdentifiers
  \/ Company_updateIdentifiers
  \/ Job_remove
  \/ Company_remove
  \/ Complete

SpecLifecycle == InitUpdate /\ [][NextLifecycle]_vars

(***************************************************************************)
(* C16: remove of a stored key deletes exactly that row and leaves every   *)
(* other row as it was; remove of a key with no row fails with             *)
(* NotFoundError and changes nothing; and once Job.remove(id) has          *)
(* succeeded, every later get, update or remove of that id fails with      *)
(* NotFoundError.                                                          *)
(***************************************************************************)
RemoveStep == Idle /\ op'.name \in {"Job.remove", "Company.remove"}

RemovesExactlyThatRow ==
  LET ofJobs == op'.name = "Job.remove"
      before == IF ofJobs THEN jobs ELSE companies
      after == IF ofJobs THEN jobs' ELSE companies'
      hit == {r \in before : r[IF ofJobs THEN "id" ELSE "handle"] = op'.id[2]}
  IN  IF hit # {}
      THEN /\ res' = Return(Undefined)
           /\ after = before \ hit
           /\ IF ofJobs THEN companies' = companies ELSE jobs' = jobs
      ELSE /\ res' = Throw("NotFoundError")
           /\ jobs' = jobs
           /\ companies' = companies

JobRemoved(id) == IsCall("Job.remove") /\ op.id = id /\ Returned(res)
CallOnJob(id) == op.name \in {"Job.get", "Job.update", "Job.remove"} /\ op.id = id

\* Once remove(id) has succeeded, the calls that follow it find no such job.
RemovedStaysGone ==
  \A id \in JobIds :
    [](JobRemoved(id) =>
         [](Idle => [](CallOnJob(id) => Threw(res, "NotFoundError"))))

\* C16: remove deletes exactly the row with the key, fails with NotFoundError
\* without one, and a removed job id stays not found.
RemoveIsExactAndFinal ==
  [][RemoveStep => RemovesExactlyThatRow]_vars /\ RemovedStaysGone

(***************************************************************************)
(* C17: Company.create with a stored handle is rejected with the           *)
(* duplicate-company error and changes nothing; with a new handle it       *)
(* inserts exactly one company and returns the full record; Job.create     *)
(* checks no uniqueness: every call inserts one job under a fresh id and   *)
(* returns it; at most one company is stored per handle.  As stated, the   *)
(* Job.create part covers every call; it holds for the calls whose company *)
(* handle names a stored company.                                          *)
(***************************************************************************)
\* The record holds the data's value in every field (the id apart).
HoldsData(row, data) ==
  \A f \in DOMAIN row \ {"id"} : row[f] = HeldFor(JsGet(data, f))

CompanyCreateKept ==
  (Idle /\ op'.name = "Company.create") =>
    IF \E c \in companies : c.handle = JsGet(op'.data, "handle")[2]
    THEN /\ res' = Throw(DuplicateCompany)
         /\ companies' = companies
         /\ jobs' = jobs
    ELSE /\ Returned(res')
         /\ HoldsData(res'[2], op'.data)
         /\ res'[2] \notin companies
         /\ companies' = companies \cup {res'[2]}
         /\ jobs' = jobs

JobInserted ==
  /\ Returned(res')
  /\ HoldsData(res'[2], op'.data)
  /\ \A j \in jobs : j.id # res'[2].id
  /\ jobs' = jobs \cup {res'[2]}
  /\ companies' = companies

JobCreateStep == Idle /\ op'.name = "Job.create"

OneCompanyPerHandle ==
  \A c, d \in companies : c.handle = d.handle => c = d

\* C17 (as stated): every Job.create inserts one job under a fresh id.
EveryJobCreateInserts ==
  /\ [][CompanyCreateKept /\ (JobCreateStep => JobInserted)]_vars
  /\ []OneCompanyPerHandle

\* C17 (amended): Job.create inserts one job under a fresh id when its company
\* handle names a stored company, and stores nothing otherwise.
CreateChecksHandleOnly ==
  /\ [][/\ CompanyCreateKept
        /\ JobCreateStep =>
             IF \E c \in companies : c.handle = JsGet(op'.data, "companyHandle")[2]
             THEN JobInserted
             ELSE ~Returned(res') /\ jobs' = jobs /\ companies' = companies]_vars
  /\ []OneCompanyPerHandle

CreateChecksHandleOnlyWitness ==
  /\ IsCall("Company.create")
  /\ JsGet(op.data, "handle") = JsStr(<<"c", "3">>)
  /\ JsGet(op.data, "name") = JsStr(<<"N", "1">>)
  /\ Threw(res, DuplicateCompany)
  /\ \E c \in companies : c.handle = <<"c", "3">> /\ c.name = <<"v">>
  /\ \E j, k \in jobs : j.id = 3 /\ k.id = 4 /\ j.companyHandle = <<"c", "3">>

(***************************************************************************)
(* C18: POST /jobs, PATCH /jobs/:id and DELETE /jobs/:id answer 401 to a   *)
(* request without a logged-in user and 403 to a user who is not admin,    *)
(* whatever the body and the id; the checks come before the body is        *)
(* validated, the Job model is not called and the jobs stay as they were.  *)
(* GET /jobs and GET /jobs/:id ask for no authorization.                   *)
(***************************************************************************)
Mutating == {"POST /jobs", "PATCH /jobs/:id", "DELETE /jobs/:id"}
Reading == {"GET /jobs", "GET /jobs/:id"}

\* The step is a request by a user who is not an admin.
NotAdminRequest(routes) ==
  Idle /\ op'.name \in routes /\ op'.user # User(TRUE)

RejectedUntouched ==
  /\ res'[2] = IF op'.user = Anonymous THEN 401 ELSE 403
  /\ sent' = <<>>
  /\ jobs' = jobs
  /\ companies' = companies
  /\ jobsIdSeq' = jobsIdSeq

\* The answer does not depend on who asks.
SameForAdmin ==
  /\ res'[2] \notin {401, 403}
  /\ \E e \in IF op'.name = "GET /jobs"
              THEN {NothingSent(r) : r \in Job_findAllOutcomes(FilterOfQuery(op'.query))}
              ELSE Job_getCall(op'.id) :
       res' = ResponseTo(e.res, 200)

\* C18: the mutating routes turn away whoever is not an admin before
\* anything else happens; the reading routes serve everyone.
OnlyAdminsMutate ==
  [][/\ NotAdminRequest(Mutating) => RejectedUntouched
     /\ NotAdminRequest(Reading) => SameForAdmin]_vars

OnlyAdminsMutateWitness ==
  /\ IsCall("PATCH /jobs/:id")
  /\ op.user = User(FALSE)
  /\ op.id = JsStr(<<"1">>)
  /\ op.body = << <<"title", JsStr(<<"v">>)>> >>
  /\ res[2] = 403
  /\ \E j \in jobs : j.id = 1 /\ j.title = <<"J", "1">>
  /\ \E j \in jobs : j.id = 4

(***************************************************************************)
(* C20: in Job.update and Company.update with a field map of n >= 1        *)
(* entries, the key condition of the statement uses the placeholder        *)
(* $(n+1), and the parameters sent are the n values in the order of the    *)
(* field map's keys followed by the primary key; the placeholders of the   *)
(* statement are 1..n+1, one parameter each, and no assignment uses the    *)
(* placeholder of the key.                                                 *)
(***************************************************************************)
UpdateTable == IF IsCall("Job.update") THEN "jobs" ELSE "companies"

UpdateOfFields ==
  /\ IsCall("Job.update") \/ IsCall("Company.update")
  /\ Len(op.data) >= 1

KeyIsLastParameter ==
  LET n == Len(op.data)
      text == sent[1].text
      params == sent[1].params
      sets == Assignments(UpdateTable, text)
  IN  /\ ParseDec(KeyDigits(UpdateTable, text)) = n + 1
      /\ params = ObjectValues(op.data) \o <<op.id>>
      /\ Len(params) = n + 1
      /\ Len(sets) = n
      /\ \A i \in 1..n : SetClauseParam(sets[i]) = i
      /\ PlaceholdersOfUpdate(UpdateTable, text) = 1..(n + 1)

\* C20: the primary key is bound to $(n+1), after the n values of the map.
UpdateBindsKeyLast ==
  UpdateOfFields => Len(sent) = 1 /\ KeyIsLastParameter

UpdateBindsKeyLastWitness ==
  /\ IsCall("Job.update")
  /\ op.id = JsNum(1)
  /\ op.data = << <<"title", JsStr(<<"v">>)>>, <<"salary", JsNum(7)>> >>
  /\ Len(sent) = 1
  /\ sent[1].params = <<JsStr(<<"v">>), JsNum(7), JsNum(1)>>
  /\ ParseDec(KeyDigits("jobs", sent[1].text)) = 3

(***************************************************************************)
(* C19: identifiers are immutable.  No call of Job.update or               *)
(* Company.update, whatever the keys of its field map, changes the id of   *)
(* a job, the company a job belongs to or the handle of a company; after   *)
(* any run of create, update and remove every stored row has the           *)
(* identifiers it was created with.                                        *)
(***************************************************************************)
JobIdentifiers == {<<j.id, j.companyHandle>> : j \in jobs}
CompanyIdentifiers == {c.handle : c \in companies}

UpdateStep ==
  Idle /\ op'.name \in {"Job.update", "Company.update"}

\* C19: an update leaves the ids, the owning companies and the handles as
\* they were, and no step gives a stored job another owning company.
IdentifiersAreImmutable ==
  [][/\ UpdateStep => /\ JobIdentifiers' = JobIdentifiers
                      /\ CompanyIdentifiers' = CompanyIdentifiers
     /\ \A j \in jobs, k \in jobs' :
          j.id = k.id => j.companyHandle = k.companyHandle]_vars

(***************************************************************************)
(* models/company.js: two Company.create calls in flight at once.  Each    *)
(* call awaits the store twice, for the duplicate check and for the        *)
(* insert; while one call waits, the other may be answered.  op.calls[i]   *)
(* holds the data of call i and the await it stands at, res[i] its         *)
(* outcome, and op.stored the handles stored when the calls began.         *)
(***************************************************************************)
Callers == {1, 2}
TwoCreates == "Company.create, Company.create"

InsertParams(data) ==
  <<JsGet(data, "handle"), JsGet(data, "name"), JsGet(data, "description"),
    JsGet(data, "numEmployees"), JsGet(data, "logoUrl")>>

\* Both calls begin: each sends its duplicate check.
Company_createTwice ==
  \E first \in CompanyCreateData, second \in CompanyCreateData :
    /\ Idle
    /\ op' = [name |-> TwoCreates,
              calls |-> <<[data |-> first, at |-> "duplicateCheck"],
                          [data |-> second, at |-> "duplicateCheck"]>>,
              stored |-> {c.handle : c \in companies}]
    /\ res' = <<NoCall, NoCall>>
    /\ sent' = <<Query(SelectHandle, <<JsGet(first, "handle")>>),
                 Query(SelectHandle, <<JsGet(second, "handle")>>)>>
    /\ UNCHANGED <<jobs, companies, jobsIdSeq>>

\* const duplicateCheck = await db.query(SELECT ...) is answered for call i:
\* the call throws when a row came back, else it sends the insert.
Company_createDuplicateCheck(i) ==
  /\ op.name = TwoCreates
  /\ op.calls[i].at = "duplicateCheck"
  /\ LET data == op.calls[i].data
         duplicateCheck == DbSelectByKey("companies", Db, <<JsGet(data, "handle")>>)
     IN  IF ~Returned(duplicateCheck.outcome) \/ duplicateCheck.outcome[2] # {}
         THEN /\ op' = [op EXCEPT !.calls[i].at = "settled"]
              /\ res' = [res EXCEPT ![i] =
                           IF Returned(duplicateCheck.outcome)
                           THEN Throw(DuplicateCompany)
                           ELSE duplicateCheck.outcome]
              /\ sent' = sent
         ELSE /\ op' = [op EXCEPT !.calls[i].at = "insert"]
              /\ res' = res
              /\ sent' = Append(sent, Query(InsertCompany, InsertParams(data)))
  /\ UNCHANGED <<jobs, companies, jobsIdSeq>>

\* const result = await db.query(INSERT ...) is answered for call i: the call
\* returns result.rows[0], or fails as the store did.
Company_createInsert(i) ==
  /\ op.name = TwoCreates
  /\ op.calls[i].at = "insert"
  /\ LET inserted == DbInsertCompany(Db, InsertParams(op.calls[i].data))
     IN  /\ res' = [res EXCEPT ![i] =
                      IF Returned(inserted.outcome)
                      THEN Return(CHOOSE r \in inserted.outcome[2] : TRUE)
                      ELSE inserted.outcome]
         /\ companies' = inserted.companies
         /\ jobs' = inserted.jobs
  /\ op' = [op EXCEPT !.calls[i].at = "settled"]
  /\ UNCHANGED <<jobsIdSeq, sent>>

BothSettled ==
  op.name = TwoCreates /\ \A i \in Callers : op.calls[i].at = "settled"

\* The callers take the two outcomes.
Company_createTwiceTaken ==
  /\ BothSettled
  /\ op' = NoOp
  /\ res' = NoCall
  /\ sent' = <<>>
  /\ UNCHANGED <<jobs, companies, jobsIdSeq>>

NextRace ==
  \/ Company_createTwice
  \/ \E i \in Callers : Company_createDuplicateCheck(i)
  \/ \E i \in Callers : Company_createInsert(i)
  \/ Company_createTwiceTaken

SpecRace == InitCreate /\ [][NextRace]_vars

(***************************************************************************)
(* C21: two concurrent Company.create calls for one handle that is not     *)
(* stored: in every interleaving one call inserts the company and the      *)
(* other fails with the duplicate-company error of the sequential case;    *)
(* the handle is never stored twice and the loser never fails otherwise.   *)
(***************************************************************************)
RacedHandle == JsGet(op.calls[1].data, "handle")[2]

\* Both calls have settled, and they were for one handle, not stored before.
RaceForNewHandle ==
  /\ BothSettled
  /\ JsGet(op.calls[2].data, "handle")[2] = RacedHandle
  /\ RacedHandle \notin op.stored

Inserted(i) ==
  /\ Returned(res[i])
  /\ res[i][2] \in companies
  /\ res[i][2].handle = RacedHandle

\* C21: one call inserts, the other gets the duplicate-company error.
OneCreatesOtherIsDuplicate ==
  RaceForNewHandle =>
    /\ Cardinality({c \in companies : c.handle = RacedHandle}) = 1
    /\ \E i \in Callers :
         /\ Inserted(i)
         /\ \A j \in Callers \ {i} : Threw(res[j], DuplicateCompany)

=============================================================================
